---- MODULE Spec2Model ----
(***************************************************************************)
(* Model of src/drivers/mssql/execute.ts: the dispatcher executeSql, the   *)
(* bulk loader bulkProcess and the column encryptor bulkEncrypt.           *)
(*                                                                         *)
(* Spec is one call; SpecConc is two concurrent calls of bulkProcess on    *)
(* the same pool.  Every database round trip (transaction begin,           *)
(* commit, rollback, manageKey, the encryption query, request.bulk, the    *)
(* statement query) is an await: the code runs synchronously up to the     *)
(* round trip it issues, and an action of the model is the return of one   *)
(* round trip (with either outcome) followed by all the code that runs     *)
(* until the next round trip is issued.  The synchronous code is written   *)
(* as operators from a state record to a state record, in the order of the *)
(* source, so that a continuation is an operator application.              *)
(***************************************************************************)
EXTENDS Integers, Sequences, FiniteSets, TLC

\* Bounds of the model.
MaxRows == 3
MaxBatch == 3

\* batchSize = 5000, the default parameter of bulkProcess.
DefaultBatchSize == 5000

\* Column names of the declared columns and of encryption.data.
Names == {"a", "b"}

\* The declared column lists (bulk.columns) a call is made with.
ColumnLists == {<<>>, <<"a">>, <<"a", "b">>}

BatchSizes == (1..MaxBatch) \cup {DefaultBatchSize}

\* Row r of the data: a mapping from column name to a scalar value.
Row(r) == [a |-> r, b |-> 10 + r]

Rows(n) == [r \in 1..n |-> Row(r)]

\* The shapes of request.query's result: undefined, or its recordsets.
Undefined == <<"undefined">>
QueryResults == {Undefined, <<>>, << <<1, 2>> >>, << <<>> >>, << <<1>>, <<2>> >>}

\* No statement has been executed.
NoResult == <<"none">>

VARIABLES
    input,          \* the arguments of the call (fixed during the call)
    pc,             \* the round trip the call is suspended on
    keyOpenedD,     \* executeSql's keyOpened
    keyOpened,      \* bulkProcess's keyOpened
    i,              \* bulkProcess's loop index (0-based, as in the code)
    tableRows,      \* table.rows, the rows staged for request.bulk
    processedData,  \* processedData, one value sequence per declared column
    completion,     \* the completion a finally block will resume with
    encReq,         \* per declared column: the encryption round trip
    log,            \* history: the round trips issued and returned, in order
    bulkCalls,      \* history: the rows carried by each request.bulk
    loaderCalls,    \* history: the number of times bulkProcess was entered
    queryResult,    \* history: what request.query resolved with
    keyIsOpen,      \* the database side: the symmetric key is open
    other,          \* a second call running concurrently: its state record
    sameDescriptor, \* the second call's encryption.open names the same key
    outcome         \* how the call's promise settled

vars == <<input, pc, keyOpenedD, keyOpened, i, tableRows, processedData,
          completion, encReq, log, bulkCalls, loaderCalls, queryResult,
          keyIsOpen, other, sameDescriptor, outcome>>

----------------------------------------------------------------------------
\* Completions and errors.

Err(step, col) == [step |-> step, col |-> col]
NoErr == Err("none", 0)

NoCompletion == [kind |-> "none", error |-> NoErr, result |-> <<>>]
Return(v) == [kind |-> "return", error |-> NoErr, result |-> v]
Throw(e) == [kind |-> "throw", error |-> e, result |-> <<>>]

\* A log entry: round trip op is issued (ph = "call") or has returned
\* (ph = "ret", ok its outcome) at layer who ("D" executeSql, "L" bulkProcess);
\* tx is the transaction involved, col the column of an encryption or the
\* ordinal of the chunk of a bulk insert.
Ev(op, ph, who, ok, tx, col) ==
    [op |-> op, ph |-> ph, who |-> who, ok |-> ok, tx |-> tx, col |-> col]

Issue(s, op, who, tx, col) ==
    [s EXCEPT !.log = Append(@, Ev(op, "call", who, TRUE, tx, col))]

Returned(s, op, who, ok, tx, col) ==
    [s EXCEPT !.log = Append(@, Ev(op, "ret", who, ok, tx, col))]

Min(x, y) == IF x < y THEN x ELSE y

\* manageKey(pool, descriptor, transaction) has returned: a call that succeeds
\* opens the key when it is closed and closes it when it is open (the same
\* function, called with the same descriptor, toggles); a call that fails
\* leaves the key as it was.
ManageKey(s, ok) == IF ok THEN [s EXCEPT !.keyIsOpen = ~@] ELSE s

----------------------------------------------------------------------------
\* The inputs.

Inputs ==
    { inp \in [entry : {"bulkProcess", "executeSql"},
               pool : BOOLEAN,
               bulk : {"absent", "nocolumns", "columns"},
               transaction : BOOLEAN,
               encOpen : BOOLEAN,
               encData : SUBSET Names,
               columns : ColumnLists,
               data : {Rows(n) : n \in 0..MaxRows},
               batchSize : BatchSizes] :
        /\ inp.entry = "bulkProcess" => inp.pool /\ inp.bulk = "columns"
        /\ inp.bulk # "columns" =>
              /\ inp.encData = {} /\ inp.columns = <<>>
              /\ inp.data = <<>> /\ inp.batchSize = DefaultBatchSize }

\* existingTransaction of bulkProcess, input.transaction of executeSql.
ExistingTransaction == input.transaction

\* Mutant: transaction management regardless of who supplied the transaction.
NeedsTransactionManagement_Always == TRUE

\* let needsTransactionManagement = !existingTransaction
NeedsTransactionManagement == ~ExistingTransaction

\* The transaction object of bulkProcess: existingTransaction || new Transaction.
Transaction == IF ExistingTransaction THEN "caller" ELSE "own"

\* The transaction argument of manageKey: existingTransaction / input.transaction.
KeyTransaction == IF ExistingTransaction THEN "caller" ELSE "none"

St == [pc |-> pc, keyOpenedD |-> keyOpenedD, keyOpened |-> keyOpened, i |-> i,
       tableRows |-> tableRows, processedData |-> processedData,
       completion |-> completion, encReq |-> encReq, log |-> log,
       bulkCalls |-> bulkCalls, loaderCalls |-> loaderCalls,
       queryResult |-> queryResult, keyIsOpen |-> keyIsOpen,
       outcome |-> outcome]

Set(s) ==
    /\ pc' = s.pc
    /\ keyOpenedD' = s.keyOpenedD
    /\ keyOpened' = s.keyOpened
    /\ i' = s.i
    /\ tableRows' = s.tableRows
    /\ processedData' = s.processedData
    /\ completion' = s.completion
    /\ encReq' = s.encReq
    /\ log' = s.log
    /\ bulkCalls' = s.bulkCalls
    /\ loaderCalls' = s.loaderCalls
    /\ queryResult' = s.queryResult
    /\ keyIsOpen' = s.keyIsOpen
    /\ outcome' = s.outcome
    /\ input' = input
    /\ UNCHANGED <<other, sameDescriptor>>

----------------------------------------------------------------------------
\* Mutant: the close is awaited without .catch, so its rejection replaces the
\* pending completion.
CloseCompletion_Rethrow(s, ok) ==
    IF ok THEN s.completion ELSE Throw(Err("keyClose", 0))

\* manageKey(...).catch(console.error) in a finally block: a rejection of the
\* close is logged and swallowed, and the block's pending completion resumes.
CloseCompletion(s, ok) == s.completion

\* The promise of the call settles.
Settle(s, comp) ==
    [s EXCEPT !.pc = "done", !.outcome = comp, !.completion = NoCompletion]

\* Mutant: executeSql settles without closing the key it opened.
ExecFinally_NoClose(s, comp) == Settle(s, comp)

\* executeSql, finally: close the key if this layer opened it.
ExecFinally(s, comp) ==
    IF s.keyOpenedD /\ input.encOpen
    THEN [Issue(s, "keyClose", "D", KeyTransaction, 0)
            EXCEPT !.pc = "d_close_wait", !.completion = comp]
    ELSE Settle(s, comp)

\* bulkProcess's promise settles: the caller resumes.
BulkReturn(s, comp) ==
    IF input.entry = "bulkProcess"
    THEN Settle(s, comp)
    ELSE ExecFinally(s, IF comp.kind = "return" THEN Return(<<>>) ELSE comp)

\* Mutant: the finally block of bulkProcess does not close the key.
BulkFinally_NoClose(s, comp) == BulkReturn(s, comp)

\* bulkProcess, finally: close the key if this layer opened it.
BulkFinally(s, comp) ==
    IF s.keyOpened /\ input.encOpen
    THEN [Issue(s, "keyClose", "L", KeyTransaction, 0)
            EXCEPT !.pc = "close_wait", !.completion = comp]
    ELSE BulkReturn(s, comp)

\* Mutant: the catch block rethrows without rolling back.
BulkCatch_NoRollback(s, error) == BulkFinally(s, Throw(error))

\* Mutant: the catch block rolls back whoever owns the transaction.
BulkCatch_AlwaysRollback(s, error) ==
    [Issue(s, "rollback", "L", Transaction, 0)
        EXCEPT !.pc = "rollback_wait", !.completion = Throw(error)]

\* bulkProcess, catch (error): roll back an owned transaction, rethrow.
BulkCatch(s, error) ==
    IF NeedsTransactionManagement
    THEN [Issue(s, "rollback", "L", Transaction, 0)
            EXCEPT !.pc = "rollback_wait", !.completion = Throw(error)]
    ELSE BulkFinally(s, Throw(error))

\* bulkProcess after the loop: commit an owned transaction.
BulkCommit(s) ==
    IF NeedsTransactionManagement
    THEN [Issue(s, "commit", "L", Transaction, 0) EXCEPT !.pc = "commit_wait"]
    ELSE BulkFinally(s, Return(<<>>))

\* Mutant: the staged rows of the previous chunk are not cleared.
ClearRows_Keep(staged) == staged

\* table.rows.length = 0
ClearRows(staged) == <<>>

\* processedData.map(col => col.slice(i, batchEnd))
BatchRows(pd, from, batchEnd) ==
    [c \in DOMAIN pd |-> SubSeq(pd[c], from + 1, batchEnd)]

\* for j < batchRows[0].length: table.rows.add(...batchRows.map(col => col[j]))
StageRows(staged, batchRows) ==
    ClearRows(staged) \o
        [j \in 1..Len(batchRows[1]) |->
            [c \in DOMAIN batchRows |-> batchRows[c][j]]]

\* Mutant: the loop stops one batch early.
LoopCond_SkipLast(s) == s.i + input.batchSize < Len(input.data)

\* The loop condition i < data.length.
LoopCond(s) == s.i < Len(input.data)

\* One turn of the for loop over the chunks, up to await request.bulk(table);
\* with no declared column batchRows[0] is undefined and .length throws.
BulkLoop(s) ==
    IF LoopCond(s)
    THEN LET batchEnd == Min(s.i + input.batchSize, Len(input.data))
             batchRows == BatchRows(s.processedData, s.i, batchEnd)
         IN  IF Len(input.columns) = 0
             THEN BulkCatch(s, Err("TypeError", 0))
             ELSE LET rows == StageRows(s.tableRows, batchRows)
                  IN  [Issue(s, "bulk", "L", Transaction, Len(s.bulkCalls) + 1)
                         EXCEPT !.pc = "insert_wait",
                                !.tableRows = rows,
                                !.bulkCalls = Append(@, rows)]
    ELSE BulkCommit(s)

\* i += batchSize
NextIndex(s) == s.i + input.batchSize

\* Promise.all resolved: build the table and enter the loop with i = 0.
BulkAfterEncrypt(s) == BulkLoop([s EXCEPT !.i = 0])

\* data.map(row => row[name])
ColumnValues(name) == [r \in 1..Len(input.data) |-> input.data[r][name]]

\* Mutant: every declared column goes through bulkEncrypt.
IsEncrypted_All(name) == TRUE

\* new Set(encryption?.data || []).has(name)
IsEncrypted(name) == name \in input.encData

\* The server's EncryptByKey of one value: an opaque ciphertext.
EncryptByKey(v) == 1000 + v

\* result.recordset.map(r => r.encrypted), one ciphertext per value, in order.
Encrypted(values) == [k \in 1..Len(values) |-> EncryptByKey(values[k])]

\* bulkEncrypt issues a round trip unless values is empty.
NeedsRoundTrip(name) == IsEncrypted(name) /\ Len(ColumnValues(name)) > 0

RECURSIVE IssueEncrypts(_, _)
\* columns.map(async ...): the callbacks run in column order, each up to its
\* await of request.query, so the round trips are issued together.
IssueEncrypts(s, c) ==
    IF c > Len(input.columns)
    THEN s
    ELSE IssueEncrypts(
            IF NeedsRoundTrip(input.columns[c])
            THEN [Issue(s, "encrypt", "L", "none", c)
                    EXCEPT !.encReq[c] =
                        [status |-> "pending",
                         values |-> ColumnValues(input.columns[c])]]
            ELSE [s EXCEPT !.processedData[c] =
                        IF IsEncrypted(input.columns[c])
                        THEN <<>>
                        ELSE ColumnValues(input.columns[c])],
            c + 1)

Pending(s) == {c \in DOMAIN s.encReq : s.encReq[c].status = "pending"}

\* const processedData = await Promise.all(columns.map(...))
BulkEncryptAll(s) ==
    LET s1 == IssueEncrypts(s, 1)
    IN  IF Pending(s1) = {}
        THEN BulkAfterEncrypt(s1)
        ELSE [s1 EXCEPT !.pc = "enc_wait"]

\* Mutant: bulkProcess leaves the key to its caller and does not open it.
BulkOpenKey_NoOpen(s) == BulkEncryptAll(s)

\* if (encryption?.open) await manageKey(pool, encryption.open, existingTransaction)
BulkOpenKey(s) ==
    IF input.encOpen
    THEN [Issue(s, "keyOpen", "L", KeyTransaction, 0) EXCEPT !.pc = "open_wait"]
    ELSE BulkEncryptAll(s)

\* bulkProcess after if (!data.length) return: the start of the try block.
BulkBegin(s) ==
    IF NeedsTransactionManagement
    THEN [Issue(s, "begin", "L", Transaction, 0) EXCEPT !.pc = "begin_wait"]
    ELSE BulkOpenKey(s)

\* Mutant: bulkProcess without the early return on empty data.
BulkProcess_NoEmptyCheck(s) == BulkBegin([s EXCEPT !.loaderCalls = @ + 1])

\* bulkProcess from its entry to its first await.
BulkProcess(s) ==
    LET s1 == [s EXCEPT !.loaderCalls = @ + 1]
    IN  IF Len(input.data) = 0
        THEN BulkReturn(s1, Return(<<>>))
        ELSE BulkBegin(s1)

\* Mutant: every bulk descriptor is handed to the loader, declared columns
\* or not.
ExecDispatch_NoColumnsCheck(s) ==
    IF input.bulk = "absent"
    THEN [Issue(s, "query", "D", KeyTransaction, 0) EXCEPT !.pc = "stmt_wait"]
    ELSE BulkProcess(s)

\* executeSql after the key step: the routing.
ExecDispatch(s) ==
    IF input.bulk = "absent"
    THEN [Issue(s, "query", "D", KeyTransaction, 0) EXCEPT !.pc = "stmt_wait"]
    ELSE IF input.bulk = "columns"
         THEN BulkProcess(s)
         ELSE ExecFinally(s, Return(<<>>))

\* Mutant: executeSql without the check of the pool.
ExecuteSql_NoPoolCheck(s) ==
    IF input.encOpen
    THEN [Issue(s, "keyOpen", "D", KeyTransaction, 0) EXCEPT !.pc = "d_open_wait"]
    ELSE ExecDispatch(s)

\* executeSql from its entry to its first await.
ExecuteSql(s) ==
    IF ~input.pool
    THEN Settle(s, Throw(Err("ConfigurationError", 0)))
    ELSE IF input.encOpen
         THEN [Issue(s, "keyOpen", "D", KeyTransaction, 0)
                 EXCEPT !.pc = "d_open_wait"]
         ELSE ExecDispatch(s)

\* Mutant: the sequence of result sets is returned whatever its length.
Normalise_AlwaysRecordsets(result) ==
    IF result = Undefined THEN <<>> ELSE result

\* (result?.recordsets?.length === 1 ? result.recordset : result.recordsets) || []
Normalise(result) ==
    IF result = Undefined
    THEN <<>>
    ELSE IF Len(result) = 1 THEN result[1] ELSE result

----------------------------------------------------------------------------
\* No call has been made yet.
Idle ==
    /\ pc = "start"
    /\ keyOpenedD = FALSE
    /\ keyOpened = FALSE
    /\ i = 0
    /\ tableRows = <<>>
    /\ processedData = [c \in 1..Len(input.columns) |-> <<>>]
    /\ completion = NoCompletion
    /\ encReq = [c \in 1..Len(input.columns) |->
                    [status |-> "none", values |-> <<>>]]
    /\ log = <<>>
    /\ bulkCalls = <<>>
    /\ loaderCalls = 0
    /\ queryResult = NoResult
    /\ keyIsOpen = FALSE
    /\ outcome = NoCompletion
    /\ other = St

Init ==
    /\ input \in Inputs
    /\ Idle
    /\ sameDescriptor = FALSE

\* The call is made: the code runs to its first await.
Call ==
    /\ pc = "start"
    /\ Set(IF input.entry = "executeSql" THEN ExecuteSql(St) ELSE BulkProcess(St))

\* executeSql: await manageKey (open) returns.
ExecKeyOpenReturns ==
    /\ pc = "d_open_wait"
    /\ \E ok \in BOOLEAN :
        LET s == ManageKey(Returned(St, "keyOpen", "D", ok, KeyTransaction, 0), ok)
        IN  Set(IF ok
                THEN ExecDispatch([s EXCEPT !.keyOpenedD = TRUE])
                ELSE ExecFinally(s, Throw(Err("keyOpen", 0))))

\* executeSql: await request.query returns.
QueryReturns ==
    /\ pc = "stmt_wait"
    /\ \/ \E result \in QueryResults :
            LET s == [Returned(St, "query", "D", TRUE, KeyTransaction, 0)
                        EXCEPT !.queryResult = result]
            IN  Set(ExecFinally(s, Return(Normalise(result))))
       \/ Set(ExecFinally(Returned(St, "query", "D", FALSE, KeyTransaction, 0),
                          Throw(Err("query", 0))))

\* executeSql: await manageKey (close) returns; .catch swallows a failure.
ExecKeyCloseReturns ==
    /\ pc = "d_close_wait"
    /\ \E ok \in BOOLEAN :
        LET s == ManageKey(Returned(St, "keyClose", "D", ok, KeyTransaction, 0), ok)
        IN  Set(Settle(s, CloseCompletion(s, ok)))

\* bulkProcess resumes after await transaction.begin().
AfterBegin(s0, ok) ==
    LET s == Returned(s0, "begin", "L", ok, Transaction, 0)
    IN  IF ok THEN BulkOpenKey(s) ELSE BulkCatch(s, Err("begin", 0))

\* bulkProcess: await transaction.begin() returns.
BeginReturns ==
    /\ pc = "begin_wait"
    /\ \E ok \in BOOLEAN : Set(AfterBegin(St, ok))

\* bulkProcess resumes after await manageKey (open).
AfterKeyOpen(s0, ok) ==
    LET s == ManageKey(Returned(s0, "keyOpen", "L", ok, KeyTransaction, 0), ok)
    IN  IF ok
        THEN BulkEncryptAll([s EXCEPT !.keyOpened = TRUE])
        ELSE BulkCatch(s, Err("keyOpen", 0))

\* bulkProcess: await manageKey (open) returns.
KeyOpenReturns ==
    /\ pc = "open_wait"
    /\ \E ok \in BOOLEAN : Set(AfterKeyOpen(St, ok))

\* bulkEncrypt resumes after await request.query for column c.  Promise.all
\* rejects with the first rejection and resolves when every column has its
\* values; a round trip that returns after Promise.all has settled is dropped.
AfterEncrypt(s0, c, ok) ==
    LET s == [Returned(s0, "encrypt", "L", ok, "none", c)
                EXCEPT !.encReq[c].status = IF ok THEN "ok" ELSE "failed"]
    IN  IF s0.pc # "enc_wait"
        THEN s
        ELSE IF ~ok
             THEN BulkCatch(s, Err("encrypt", c))
             ELSE LET s1 == [s EXCEPT !.processedData[c] =
                                 Encrypted(s0.encReq[c].values)]
                  IN  IF Pending(s1) = {}
                      THEN BulkAfterEncrypt(s1)
                      ELSE s1

\* bulkEncrypt: await request.query returns for column c.
EncryptReturns ==
    \E c \in DOMAIN encReq, ok \in BOOLEAN :
        /\ encReq[c].status = "pending"
        /\ Set(AfterEncrypt(St, c, ok))

\* bulkProcess resumes after await request.bulk(table).
AfterBulkInsert(s0, ok) ==
    LET s == Returned(s0, "bulk", "L", ok, Transaction, Len(s0.bulkCalls))
    IN  IF ok
        THEN BulkLoop([s EXCEPT !.i = NextIndex(s)])
        ELSE BulkCatch(s, Err("bulk", Len(s0.bulkCalls)))

\* bulkProcess: await request.bulk(table) returns.
BulkInsertReturns ==
    /\ pc = "insert_wait"
    /\ \E ok \in BOOLEAN : Set(AfterBulkInsert(St, ok))

\* bulkProcess resumes after await transaction.commit().
AfterCommit(s0, ok) ==
    LET s == Returned(s0, "commit", "L", ok, Transaction, 0)
    IN  IF ok
        THEN BulkFinally(s, Return(<<>>))
        ELSE BulkCatch(s, Err("commit", 0))

\* bulkProcess: await transaction.commit() returns.
CommitReturns ==
    /\ pc = "commit_wait"
    /\ \E ok \in BOOLEAN : Set(AfterCommit(St, ok))

\* bulkProcess resumes after await transaction.rollback() in the catch block;
\* when it rejects, throw error is not reached and the rejection propagates.
AfterRollback(s0, ok) ==
    LET s == Returned(s0, "rollback", "L", ok, Transaction, 0)
    IN  IF ok
        THEN BulkFinally(s, s.completion)
        ELSE BulkFinally(s, Throw(Err("rollback", 0)))

\* Mutant: a rejected rollback leaves bulkProcess without running the finally
\* block.
RollbackReturns_SkipFinally ==
    /\ pc = "rollback_wait"
    /\ \E ok \in BOOLEAN :
        LET s == Returned(St, "rollback", "L", ok, Transaction, 0)
        IN  Set(IF ok
                THEN BulkFinally(s, s.completion)
                ELSE BulkReturn(s, Throw(Err("rollback", 0))))

\* bulkProcess: await transaction.rollback() returns inside the catch block.
RollbackReturns ==
    /\ pc = "rollback_wait"
    /\ \E ok \in BOOLEAN : Set(AfterRollback(St, ok))

\* bulkProcess resumes after await manageKey (close); .catch swallows a
\* failure.
AfterKeyClose(s0, ok) ==
    LET s == ManageKey(Returned(s0, "keyClose", "L", ok, KeyTransaction, 0), ok)
    IN  BulkReturn(s, CloseCompletion(s, ok))

\* bulkProcess: await manageKey (close) returns.
KeyCloseReturns ==
    /\ pc = "close_wait"
    /\ \E ok \in BOOLEAN : Set(AfterKeyClose(St, ok))

Next ==
    \/ Call
    \/ ExecKeyOpenReturns
    \/ QueryReturns
    \/ ExecKeyCloseReturns
    \/ BeginReturns
    \/ KeyOpenReturns
    \/ EncryptReturns
    \/ BulkInsertReturns
    \/ CommitReturns
    \/ RollbackReturns
    \/ KeyCloseReturns

Spec == Init /\ [][Next]_vars

----------------------------------------------------------------------------
\* Two concurrent calls of bulkProcess on the same pool.  The first call is
\* the one of the variables above; the second is made with the same arguments
\* (its own transaction object, created at line 24 of its own activation) and
\* its state is the record other.  Each call runs as the code of one call; a
\* step of either call is the return of one of its round trips.  manageKey
\* acts on the key its descriptor names: when both calls name the same key
\* they act on one key state.

\* The inputs of the two calls: a self-owned transaction, encryption.open and
\* an encrypted column.
ConcurrentInputs ==
    { inp \in Inputs :
        /\ inp.entry = "bulkProcess" /\ ~inp.transaction /\ inp.encOpen
        /\ inp.encData = {"a"} /\ inp.columns \in {<<"a">>, <<"a", "b">>}
        /\ inp.data = Rows(1) /\ inp.batchSize = DefaultBatchSize }

\* The state of the second call, with the key state its manageKey acts on.
OtherSt == IF sameDescriptor THEN [other EXCEPT !.keyIsOpen = keyIsOpen] ELSE other

SetOther(s) ==
    /\ other' = s
    /\ keyIsOpen' = IF sameDescriptor THEN s.keyIsOpen ELSE keyIsOpen
    /\ UNCHANGED <<input, pc, keyOpenedD, keyOpened, i, tableRows,
                   processedData, completion, encReq, log, bulkCalls,
                   loaderCalls, queryResult, sameDescriptor, outcome>>

InitConc ==
    /\ input \in ConcurrentInputs
    /\ Idle
    /\ sameDescriptor \in BOOLEAN

\* The second call is made.
OtherCall ==
    /\ other.pc = "start"
    /\ SetOther(BulkProcess(OtherSt))

OtherBeginReturns ==
    /\ other.pc = "begin_wait"
    /\ \E ok \in BOOLEAN : SetOther(AfterBegin(OtherSt, ok))

OtherKeyOpenReturns ==
    /\ other.pc = "open_wait"
    /\ \E ok \in BOOLEAN : SetOther(AfterKeyOpen(OtherSt, ok))

OtherEncryptReturns ==
    \E c \in DOMAIN other.encReq, ok \in BOOLEAN :
        /\ other.encReq[c].status = "pending"
        /\ SetOther(AfterEncrypt(OtherSt, c, ok))

OtherBulkInsertReturns ==
    /\ other.pc = "insert_wait"
    /\ \E ok \in BOOLEAN : SetOther(AfterBulkInsert(OtherSt, ok))

OtherCommitReturns ==
    /\ other.pc = "commit_wait"
    /\ \E ok \in BOOLEAN : SetOther(AfterCommit(OtherSt, ok))

OtherRollbackReturns ==
    /\ other.pc = "rollback_wait"
    /\ \E ok \in BOOLEAN : SetOther(AfterRollback(OtherSt, ok))

OtherKeyCloseReturns ==
    /\ other.pc = "close_wait"
    /\ \E ok \in BOOLEAN : SetOther(AfterKeyClose(OtherSt, ok))

NextConc ==
    \/ Call
    \/ BeginReturns
    \/ KeyOpenReturns
    \/ EncryptReturns
    \/ BulkInsertReturns
    \/ CommitReturns
    \/ RollbackReturns
    \/ KeyCloseReturns
    \/ OtherCall
    \/ OtherBeginReturns
    \/ OtherKeyOpenReturns
    \/ OtherEncryptReturns
    \/ OtherBulkInsertReturns
    \/ OtherCommitReturns
    \/ OtherRollbackReturns
    \/ OtherKeyCloseReturns

SpecConc == InitConc /\ [][NextConc]_vars

----------------------------------------------------------------------------
TypeOK ==
    /\ input \in Inputs
    /\ pc \in {"start", "d_open_wait", "stmt_wait", "d_close_wait", "begin_wait",
               "open_wait", "enc_wait", "insert_wait", "commit_wait",
               "rollback_wait", "close_wait", "done"}
    /\ keyOpenedD \in BOOLEAN
    /\ keyOpened \in BOOLEAN
    /\ i \in Nat
    /\ loaderCalls \in 0..1

----------------------------------------------------------------------------
\* Reading the history.

\* The positions of the log where round trip op is issued at layer who.
Calls(op, who) ==
    {k \in DOMAIN log : log[k].op = op /\ log[k].ph = "call" /\ log[k].who = who}

\* The positions of the log where round trip op returns with outcome ok.
Rets(op, who, ok) ==
    {k \in DOMAIN log :
        log[k].op = op /\ log[k].ph = "ret" /\ log[k].who = who /\ log[k].ok = ok}

TxOps == {"begin", "commit", "rollback"}

\* bulkProcess was entered and its promise has settled.
LoaderDone == loaderCalls > 0 /\ pc \in {"d_close_wait", "done"}

\* The number of chunks of n rows in batches of b.
Chunks(n, b) == (n + b - 1) \div b

----------------------------------------------------------------------------
\* C1: with a caller-supplied transaction no path of executeSql or
\* bulkProcess issues begin, commit or rollback: the log never holds one.
C1_NoTransactionControl ==
    input.transaction => \A k \in DOMAIN log : log[k].op \notin TxOps

\* C1 witness: a bulk load inside a caller-supplied transaction whose second
\* chunk failed, after the call has rejected.
C1_Witness ==
    /\ input.transaction
    /\ pc = "done"
    /\ outcome.kind = "throw"
    /\ outcome.error.step = "bulk"
    /\ Len(bulkCalls) = 2

\* C2: in a call that owns its transaction, when the insert of chunk k fails
\* rollback is invoked (once, at once), commit is never invoked and no later
\* chunk is inserted: the inserts issued are the k issued up to the failure.
C2_InsertFailureStops ==
    \A k \in Rets("bulk", "L", FALSE) :
        ~input.transaction =>
            /\ Cardinality(Calls("rollback", "L")) = 1
            /\ \A r \in Calls("rollback", "L") : r = k + 1 /\ log[r].tx = "own"
            /\ Calls("commit", "L") = {}
            /\ \A c \in Calls("bulk", "L") : c < k
            /\ Len(bulkCalls) = Cardinality(Calls("bulk", "L"))
            /\ Len(bulkCalls) = log[k].col

\* C2 witness: the second of three chunks failed in a self-owned transaction
\* and the call has finished.
C2_Witness ==
    /\ ~input.transaction
    /\ pc = "done"
    /\ Len(input.data) = 3
    /\ input.batchSize = 1
    /\ Rets("bulk", "L", FALSE) # {}
    /\ Len(bulkCalls) = 2

\* The failed round trips of bulkProcess's key-open, encryption and insert.
StepFailures ==
    {k \in DOMAIN log :
        /\ log[k].who = "L" /\ log[k].ph = "ret" /\ ~log[k].ok
        /\ log[k].op \in {"keyOpen", "encrypt", "bulk"}}

\* The least element of a non-empty set of positions.
First(S) == CHOOSE k \in S : \A j \in S : k <= j

\* The error of the failed round trip at position k of the log.
ErrorAt(k) == Err(log[k].op, log[k].col)

\* C3 (as stated): whenever key-open was attempted (encryption.open present
\* and rows non-empty), a finished loader call has attempted key-close
\* exactly once.
C3_Original ==
    (LoaderDone /\ input.encOpen /\ Len(input.data) > 0)
        => Cardinality(Calls("keyClose", "L")) = 1

\* C3 (amended): key-close is attempted exactly once by a loader call whose
\* key-open succeeded, as the last round trip of the call and awaited before
\* the call settles, on success and on failure paths; a call whose key-open
\* failed or was never reached attempts no key-close.
C3_CloseIffOpened ==
    /\ Cardinality(Calls("keyClose", "L")) <= 1
    /\ \A c \in Calls("keyClose", "L") :
          /\ Rets("keyOpen", "L", TRUE) # {}
          /\ \A k \in DOMAIN log :
                (log[k].who = "L" /\ log[k].ph = "call") => k <= c
    /\ LoaderDone =>
          /\ Cardinality(Calls("keyClose", "L")) =
                (IF Rets("keyOpen", "L", TRUE) # {} THEN 1 ELSE 0)
          /\ Cardinality(Rets("keyClose", "L", TRUE) \cup Rets("keyClose", "L", FALSE))
                = Cardinality(Calls("keyClose", "L"))

\* C3 witness: the key was opened, an insert failed, and the finished call
\* has attempted the close once.
C3_Witness ==
    /\ LoaderDone
    /\ Rets("keyOpen", "L", TRUE) # {}
    /\ Rets("bulk", "L", FALSE) # {}
    /\ Cardinality(Calls("keyClose", "L")) = 1

\* C4 (as stated): when key-open, an encryption or an insert of a call that
\* owns its transaction fails, rollback is invoked and the call rejects with
\* the first failure that occurred.
C4_Original ==
    (pc = "done" /\ ~input.transaction /\ StepFailures # {})
        => /\ Calls("rollback", "L") # {}
           /\ outcome.kind = "throw"
           /\ outcome.error = ErrorAt(First(StepFailures))

\* The failed round trips other than a key-close, and other than a rollback.
PrimaryFailures ==
    {k \in DOMAIN log :
        log[k].ph = "ret" /\ ~log[k].ok /\ log[k].op \notin {"keyClose", "rollback"}}

\* The loop of bulkProcess is entered with no declared column.
NoColumnToStage ==
    /\ loaderCalls > 0 /\ Len(input.data) > 0 /\ Len(input.columns) = 0
    /\ Rets("begin", "L", FALSE) = {} /\ Rets("keyOpen", "L", FALSE) = {}

\* The outcome of a finished call as the round trips other than the
\* key-closes determine it.
OutcomeWithoutClose ==
    IF ~input.pool THEN Throw(Err("ConfigurationError", 0))
    ELSE IF Rets("rollback", "L", FALSE) # {} THEN Throw(Err("rollback", 0))
    ELSE IF PrimaryFailures # {} THEN Throw(ErrorAt(First(PrimaryFailures)))
    ELSE IF NoColumnToStage THEN Throw(Err("TypeError", 0))
    ELSE Return(outcome.result)

\* The step in which a key-close returns resumes with the completion that
\* was pending when the close was issued.
CloseResumesPending ==
    pc \in {"close_wait", "d_close_wait"} =>
        LET next == IF pc' = "done" THEN outcome' ELSE completion'
        IN  /\ next.kind = completion.kind
            /\ next.error = completion.error
            /\ completion.kind = "return" =>
                  Len(next.result) = Len(completion.result)

\* C5: a failure of key-close never changes the outcome.  A finished call has
\* resolved or rejected, with the error, as its round trips other than the
\* key-closes determine; and the step in which a key-close returns, at either
\* layer and with either result, resumes with the completion that was
\* pending when the close was issued.
C5_CloseNeverChangesOutcome ==
    /\ [](pc = "done" =>
            /\ outcome.kind = OutcomeWithoutClose.kind
            /\ outcome.error = OutcomeWithoutClose.error)
    /\ [][CloseResumesPending]_vars

\* C5 witness: a call routed through executeSql whose two key-closes both
\* failed and that has resolved.
C5_Witness ==
    /\ pc = "done"
    /\ Rets("keyClose", "L", FALSE) # {}
    /\ Rets("keyClose", "D", FALSE) # {}
    /\ outcome.kind = "return"

\* bulkProcess was entered and its promise has resolved.
LoaderResolved ==
    /\ LoaderDone
    /\ (IF pc = "done" THEN outcome.kind ELSE completion.kind) = "return"

\* C6: in a call that owns its transaction (rows non-empty, so that a
\* transaction exists), commit is invoked at most once, only after every
\* chunk's insert has returned successfully and after the last round trip of
\* encryption and insert; never when key-open, an encryption or an insert
\* failed; and the call resolves only if commit returned successfully.
C6_CommitAfterAllChunks ==
    (~input.transaction /\ loaderCalls > 0 /\ Len(input.data) > 0) =>
        /\ Cardinality(Calls("commit", "L")) <= 1
        /\ \A c \in Calls("commit", "L") :
              /\ Cardinality({k \in Rets("bulk", "L", TRUE) : k < c})
                    = Chunks(Len(input.data), input.batchSize)
              /\ \A k \in Calls("bulk", "L") \cup Calls("encrypt", "L") : k < c
              /\ Rets("begin", "L", TRUE) # {}
        /\ StepFailures # {} => Calls("commit", "L") = {}
        /\ LoaderResolved => Rets("commit", "L", TRUE) # {}

\* C6 witness: a self-owned load of three rows in two chunks has committed and
\* resolved.
C6_Witness ==
    /\ ~input.transaction
    /\ LoaderResolved
    /\ Len(input.data) = 3
    /\ input.batchSize = 2
    /\ Rets("commit", "L", TRUE) # {}

\* The tuple bulkProcess submits for row r: the declared columns in order,
\* an encrypted column holding the ciphertext of the row's value.
ProcessedRow(r) ==
    [c \in 1..Len(input.columns) |->
        IF input.columns[c] \in input.encData
        THEN EncryptByKey(input.data[r][input.columns[c]])
        ELSE input.data[r][input.columns[c]]]

\* Rows [(k-1)*b, min(k*b, n)) (0-based) of the processed row sequence.
ExpectedChunk(k) ==
    LET b == input.batchSize
        n == Len(input.data)
    IN  [j \in 1..(Min(k * b, n) - (k - 1) * b) |-> ProcessedRow((k - 1) * b + j)]

RECURSIVE Flatten(_)
Flatten(seqs) == IF seqs = <<>> THEN <<>> ELSE Head(seqs) \o Flatten(Tail(seqs))

\* C7: every insert carries exactly the rows of its chunk, nothing staged
\* earlier; the inserts go one at a time, each issued after the previous one
\* returned successfully; and a fully successful call with n > 0 rows and
\* batchSize b issues ceil(n/b) inserts (one when b >= n) whose rows
\* concatenated are the row sequence, in order (ciphertexts in the encrypted
\* columns).
C7_ChunksReproduceRows ==
    /\ \A k \in 1..Len(bulkCalls) : bulkCalls[k] = ExpectedChunk(k)
    /\ \A p \in Calls("bulk", "L") :
          /\ log[p].col = Cardinality({q \in Calls("bulk", "L") : q <= p})
          /\ log[p].col > 1 =>
                \E q \in Rets("bulk", "L", TRUE) :
                    q < p /\ log[q].col = log[p].col - 1
    /\ (LoaderResolved /\ Len(input.data) > 0) =>
          /\ Len(bulkCalls) = Chunks(Len(input.data), input.batchSize)
          /\ input.batchSize >= Len(input.data) => Len(bulkCalls) = 1
          /\ Cardinality(Rets("bulk", "L", TRUE)) = Len(bulkCalls)
          /\ Flatten(bulkCalls) = [r \in 1..Len(input.data) |-> ProcessedRow(r)]

\* C7 witness: three rows in batches of two, one column encrypted, loaded
\* successfully in two inserts.
C7_Witness ==
    /\ LoaderResolved
    /\ Len(input.data) = 3
    /\ input.batchSize = 2
    /\ input.columns = <<"a", "b">>
    /\ input.encData = {"b"}
    /\ Len(bulkCalls) = 2

\* C8: a loader call with no rows returns at once without any side effect:
\* no round trip of bulkProcess (begin, commit, rollback, key-open,
\* key-close, encryption, insert), whatever the encryption options and the
\* transaction argument.
C8_EmptyRowsNoEffect ==
    (loaderCalls > 0 /\ Len(input.data) = 0) =>
        /\ \A k \in DOMAIN log : log[k].who # "L"
        /\ bulkCalls = <<>>
        /\ tableRows = <<>>
        /\ ~keyOpened
        /\ \A c \in DOMAIN encReq : encReq[c].status = "none"
        /\ LoaderResolved

\* C8 witness: a direct call with no rows, a key to open, an encrypted
\* column and no transaction supplied has returned.
C8_Witness ==
    /\ input.entry = "bulkProcess"
    /\ loaderCalls = 1
    /\ Len(input.data) = 0
    /\ input.encOpen
    /\ input.encData = {"a"}
    /\ input.columns = <<"a">>
    /\ ~input.transaction
    /\ pc = "done"

\* The positions where the encryption of declared column c is issued.
EncryptCalls(c) == {k \in Calls("encrypt", "L") : log[k].col = c}

\* The declared columns whose name is in encryption.data.
EncryptedColumns ==
    {c \in 1..Len(input.columns) : input.columns[c] \in input.encData}

\* C9: bulkEncrypt is invoked at most once per declared column, never for a
\* column outside encryption.data, over the column's full value sequence;
\* once the encryption step is reached every encrypted column has exactly
\* one round trip, whatever the number of chunks; and each of them has
\* returned successfully before the first insert is issued.
C9_EncryptOncePerColumn ==
    /\ \A c \in 1..Len(input.columns) :
          /\ Cardinality(EncryptCalls(c)) <= 1
          /\ c \notin EncryptedColumns => EncryptCalls(c) = {}
          /\ EncryptCalls(c) # {} =>
                encReq[c].values =
                    [r \in 1..Len(input.data) |-> input.data[r][input.columns[c]]]
    /\ (Calls("encrypt", "L") # {} \/ Calls("bulk", "L") # {}) =>
          /\ \A c \in EncryptedColumns : Cardinality(EncryptCalls(c)) = 1
          /\ Cardinality(Calls("encrypt", "L")) = Cardinality(EncryptedColumns)
    /\ \A b \in Calls("bulk", "L") :
          \A c \in EncryptedColumns :
              \E k \in Rets("encrypt", "L", TRUE) : log[k].col = c /\ k < b

\* C9 witness: three chunks have been inserted after a single encryption
\* round trip for the one encrypted column of two.
C9_Witness ==
    /\ input.columns = <<"a", "b">>
    /\ input.encData = {"b"}
    /\ Len(input.data) = 3
    /\ input.batchSize = 1
    /\ Len(bulkCalls) = 3
    /\ Cardinality(Calls("encrypt", "L")) = 1

\* The round trips a key-close of executeSql must come after: every one
\* issued, and every return the call awaited.
AwaitedBefore(k, c) ==
    \/ log[k].ph = "call" /\ k # c
    \/ log[k].ph = "ret" /\ log[k].op \in TxOps \cup {"query", "bulk", "keyOpen"}
    \/ log[k].ph = "ret" /\ log[k].op = "keyClose" /\ log[k].who = "L"

ManageKeyCalls ==
    {k \in DOMAIN log : log[k].ph = "call" /\ log[k].op \in {"keyOpen", "keyClose"}}

\* C11: a successful bulk call through executeSql with declared columns,
\* rows and encryption.open calls manageKey exactly four times, with the same
\* arguments, nested: open by executeSql, open by bulkProcess, close by
\* bulkProcess, close by executeSql; every encryption and insert round trip
\* lies between the return of the second call and the third call.
C11_KeyOpenedTwiceNested ==
    (/\ input.entry = "executeSql" /\ input.bulk = "columns"
     /\ Len(input.data) > 0 /\ input.encOpen
     /\ pc = "done" /\ outcome.kind = "return") =>
        /\ Cardinality(ManageKeyCalls) = 4
        /\ \E k1, k2, k3, k4 \in ManageKeyCalls :
              /\ k1 < k2 /\ k2 < k3 /\ k3 < k4
              /\ log[k1].op = "keyOpen" /\ log[k1].who = "D"
              /\ log[k2].op = "keyOpen" /\ log[k2].who = "L"
              /\ log[k3].op = "keyClose" /\ log[k3].who = "L"
              /\ log[k4].op = "keyClose" /\ log[k4].who = "D"
              /\ \A k \in {k2, k3, k4} : log[k].tx = log[k1].tx
              /\ \A e \in DOMAIN log :
                    log[e].op \in {"encrypt", "bulk"} =>
                        /\ e < k3
                        /\ \E r \in Rets("keyOpen", "L", TRUE) : k2 < r /\ r < e

\* C11 witness: such a call with an encrypted column and two chunks has
\* resolved.
C11_Witness ==
    /\ input.entry = "executeSql"
    /\ input.encOpen
    /\ input.encData = {"a"}
    /\ pc = "done"
    /\ outcome.kind = "return"
    /\ Len(bulkCalls) = 2
    /\ Calls("encrypt", "L") # {}

\* C12: executeSql called without a database handle fails at once with the
\* configuration error, whatever else the input holds (a bulk descriptor, a
\* transaction, encryption.open), and has no side effect: no key-open, no
\* key-close, no statement, no transaction operation, no bulk insert and no
\* call of the loader.
C12_NoPoolFailsFast ==
    (input.entry = "executeSql" /\ ~input.pool /\ pc # "start") =>
        /\ pc = "done"
        /\ outcome = Throw(Err("ConfigurationError", 0))
        /\ log = <<>> /\ bulkCalls = <<>> /\ loaderCalls = 0
        /\ ~keyOpenedD /\ ~keyOpened
        /\ \A c \in DOMAIN encReq : encReq[c].status # "pending"

C12_Witness ==
    /\ input.entry = "executeSql" /\ ~input.pool
    /\ input.encOpen /\ input.bulk = "columns" /\ Len(input.data) > 0
    /\ input.transaction
    /\ pc = "done" /\ outcome.kind = "throw"

\* executeSql has reached its routing: the handle is present and the key-open,
\* if there is one, has returned successfully.
RoutingReached ==
    /\ input.entry = "executeSql" /\ input.pool
    /\ pc \notin {"start", "d_open_wait"}
    /\ input.encOpen => Rets("keyOpen", "D", TRUE) # {}

\* The round trips of the log that are not executeSql's own key-open/key-close.
NonKeyEvents ==
    {k \in DOMAIN log :
        ~(log[k].who = "D" /\ log[k].op \in {"keyOpen", "keyClose"})}

\* C13 (as stated): a call of executeSql with a bulk descriptor that lacks
\* declared columns issues no database round trip and returns an empty result.
C13_Original ==
    (input.entry = "executeSql" /\ input.pool /\ input.bulk = "nocolumns") =>
        /\ log = <<>>
        /\ pc = "done" => outcome = Return(<<>>)

\* C13 (amended): executeSql routes a call to at most one path, and a call that
\* reaches the routing to exactly one: without a bulk descriptor the statement
\* is executed once and the loader never called; with declared columns the
\* loader is called once and no statement executed; with a bulk descriptor
\* lacking declared columns neither happens, the only round trips are
\* executeSql's own key-open and key-close (none without encryption.open), and
\* the result is empty.  A call that does not reach the routing takes no path.
C13_RoutesToOnePath ==
    input.entry = "executeSql" =>
        /\ Cardinality(Calls("query", "D")) <= 1 /\ loaderCalls <= 1
        /\ ~(Calls("query", "D") # {} /\ loaderCalls > 0)
        /\ ~RoutingReached => Calls("query", "D") = {} /\ loaderCalls = 0
        /\ (RoutingReached /\ input.bulk = "absent") =>
              /\ Cardinality(Calls("query", "D")) = 1 /\ loaderCalls = 0
              /\ \A k \in DOMAIN log : log[k].who = "D"
        /\ (RoutingReached /\ input.bulk = "columns") =>
              /\ Calls("query", "D") = {} /\ loaderCalls = 1
        /\ (RoutingReached /\ input.bulk = "nocolumns") =>
              /\ loaderCalls = 0 /\ NonKeyEvents = {} /\ bulkCalls = <<>>
              /\ ~input.encOpen => log = <<>>
              /\ pc = "done" => outcome = Return(<<>>)

C13_Witness ==
    /\ input.entry = "executeSql" /\ input.bulk = "nocolumns" /\ input.encOpen
    /\ RoutingReached /\ pc = "done" /\ outcome = Return(<<>>)
    /\ Len(log) = 4

\* C14: a call of executeSql without bulk descriptor that resolves returns the
\* rows of the single result set when the statement produced exactly one
\* result set, the sequence of result sets as it is when it produced none or
\* more than one, and an empty sequence when the driver gave no result; a call
\* with a bulk descriptor that resolves returns an empty sequence.
C14_ResultShape ==
    (input.entry = "executeSql" /\ pc = "done" /\ outcome.kind = "return") =>
        IF input.bulk = "absent"
        THEN /\ queryResult # NoResult
             /\ IF queryResult = Undefined
                THEN outcome.result = <<>>
                ELSE IF Len(queryResult) = 1
                     THEN outcome.result = queryResult[1]
                     ELSE outcome.result = queryResult
        ELSE queryResult = NoResult /\ outcome.result = <<>>

C14_Witness ==
    /\ input.entry = "executeSql" /\ input.bulk = "absent"
    /\ pc = "done" /\ outcome.kind = "return"
    /\ Len(queryResult) = 2 /\ Len(outcome.result) = 2
    /\ outcome.result[2] = <<2>>

\* C15 (as stated): whenever an encryption round trip of the call is in
\* flight, the symmetric key is open.
C15_Original ==
    (input.encOpen /\ Pending(St) # {}) => keyIsOpen

\* C16 (as stated): in a loader call the key-open is issued within the
\* transaction that is active for the call, and every encryption round trip
\* runs in that same transaction.
C16_Original ==
    \A k \in Calls("keyOpen", "L") \cup Calls("encrypt", "L") :
        log[k].tx = Transaction

\* C17 (as stated): when the loader has invoked rollback, has invoked
\* key-close, or has settled, no encryption round trip it issued is still
\* outstanding.
C17_Original ==
    (loaderCalls > 0
        /\ pc \in {"rollback_wait", "close_wait", "d_close_wait", "done"}) =>
        Pending(St) = {}

\* The loader's key-open has returned successfully.
LoaderOpenedKey == Rets("keyOpen", "L", TRUE) # {}

\* The commit and rollback round trips of the log.
EndOps == {k \in DOMAIN log : log[k].op \in {"commit", "rollback"}}

\* C18: once the loader has opened the key, key-close is invoked only after
\* every commit and rollback round trip of the call has been issued and has
\* returned, and in a call that owns its transaction only after a commit that
\* succeeded or a rollback that returned (with either outcome); it is not yet
\* invoked while commit or rollback is awaited; and a finished call has
\* invoked it exactly once, whether commit failed, rollback failed or both.
C18_CloseAfterCommitOrRollback ==
    /\ \A c \in Calls("keyClose", "L") :
          /\ \A k \in EndOps : k < c
          /\ \A k \in EndOps : log[k].ph = "call" =>
                \E r \in EndOps :
                    k < r /\ log[r].ph = "ret" /\ log[r].op = log[k].op
          /\ NeedsTransactionManagement =>
                \/ Rets("commit", "L", TRUE) # {}
                \/ Rets("rollback", "L", TRUE) \cup Rets("rollback", "L", FALSE) # {}
    /\ pc \in {"commit_wait", "rollback_wait"} => Calls("keyClose", "L") = {}
    /\ (LoaderOpenedKey /\ LoaderDone) => Cardinality(Calls("keyClose", "L")) = 1

C18_Witness ==
    /\ LoaderOpenedKey /\ LoaderDone
    /\ Rets("commit", "L", FALSE) # {} /\ Rets("rollback", "L", FALSE) # {}
    /\ Calls("keyClose", "L") # {}

\* C20 (as stated): rollback is invoked at most once, only on a transaction
\* the loader owns and whose begin has returned successfully, and never after
\* commit has been invoked.
C20_Original ==
    /\ Cardinality(Calls("rollback", "L")) <= 1
    /\ \A k \in Calls("rollback", "L") :
          /\ NeedsTransactionManagement /\ log[k].tx = "own"
          /\ \E r \in Rets("begin", "L", TRUE) : r < k
          /\ ~\E c \in Calls("commit", "L") : c < k

\* C20 (amended): rollback is invoked at most once, only on a transaction the
\* loader owns and only after begin has been invoked on it and has returned,
\* successfully or not; it is never invoked after a commit that succeeded, and
\* no commit is invoked after it; a commit that failed is followed by it.
C20_RollbackOnOwnedTransaction ==
    /\ Cardinality(Calls("rollback", "L")) <= 1
    /\ \A k \in Calls("rollback", "L") :
          /\ NeedsTransactionManagement /\ log[k].tx = "own"
          /\ \E r \in Rets("begin", "L", TRUE) \cup Rets("begin", "L", FALSE) : r < k
          /\ Rets("commit", "L", TRUE) = {}
          /\ \A c \in Calls("commit", "L") : c < k
    /\ \A f \in Rets("commit", "L", FALSE) :
          f < Len(log) /\ log[f + 1] = Ev("rollback", "call", "L", TRUE, "own", 0)
    /\ \A f \in Rets("begin", "L", FALSE) :
          f < Len(log) /\ log[f + 1] = Ev("rollback", "call", "L", TRUE, "own", 0)

C20_Witness ==
    /\ Rets("commit", "L", FALSE) # {} /\ Calls("rollback", "L") # {}
    /\ Len(bulkCalls) = 2 /\ pc = "done"

\* A rollback has been invoked on a transaction whose begin failed.
C20_WitnessBeginFailed ==
    /\ Rets("begin", "L", FALSE) # {} /\ Calls("rollback", "L") # {}
    /\ pc = "done"

\* An encryption round trip of the call with state s is in flight and awaited.
InFlight(s) == s.pc = "enc_wait" /\ Pending(s) # {}

\* A step of one call, taken while the other call has an encryption round
\* trip in flight, leaves the key that other call uses as it was.
C19_KeyUntouchedByOtherCall ==
    /\ (InFlight(St) /\ other' # other) => keyIsOpen' = keyIsOpen
    /\ (InFlight(OtherSt) /\ log' # log) => OtherSt'.keyIsOpen = OtherSt.keyIsOpen

\* C19 (as stated): of two concurrent calls with self-owned transactions and
\* encryption.open, neither call's key-open or key-close changes the state of
\* the key the other call uses while that call has an encryption round trip
\* in flight.
C19_Original == [][C19_KeyUntouchedByOtherCall]_vars

====
